---------------------------- MODULE Spec2Model ----------------------------
(***************************************************************************)
(* Model of autoencoder.py: the message source (create_data_set), the      *)
(* training-time channel function (rayleigh / rayleigh_shape) and the      *)
(* evaluation sweep that fills the BER curve and saves the plot.           *)
(*                                                                         *)
(* Real numbers are kept exactly as integer numbers of halves: the record  *)
(* [nan |-> FALSE, h |-> 3] is the real 1.5.  The drawn values are chosen   *)
(* so that every product is again a whole number of halves.  NaN is the    *)
(* record with nan = TRUE.  An ndarray is a record of its shape and its    *)
(* elements in row-major order; element-wise arithmetic follows numpy's    *)
(* broadcasting rules.                                                     *)
(***************************************************************************)
EXTENDS Integers, Sequences, FiniteSets

\* ------------------------------------------------------------------ sizes
\* number of messages (16 in the source), scaled down
M == 3
\* channel uses per message
num_channels == 2
\* rows of the test set (50000 in the source), scaled down
size_test_data == 1
\* upper end of the sweep in dB (15 in the source), scaled down
end == 1
\* lower end of the sweep in dB; the source's window is symmetric (-15, 15)
start == -end
\* largest size handed to create_data_set when it is checked on its own
MaxSize == 4
\* largest batch handed to the channel layer
MaxBatch == 2

\* ---------------------------------------------------------------- numbers
Num(h) == [nan |-> FALSE, h |-> h]
NaN == [nan |-> TRUE, h |-> 0]
\* the whole number n as a float
Real(n) == Num(2 * n)

MulNum(u, v) == IF u.nan \/ v.nan THEN NaN ELSE Num((u.h * v.h) \div 2)
AddNum(u, v) == IF u.nan \/ v.nan THEN NaN ELSE Num(u.h + v.h)
\* 1 - u
OneMinusNum(u) == IF u.nan THEN NaN ELSE Num(2 - u.h)
\* np.round: to the nearest integer, ties to the even neighbour; NaN stays NaN
RoundNum(u) ==
    IF u.nan THEN NaN
    ELSE IF u.h % 2 = 0 THEN u
    ELSE LET lo == (u.h - 1) \div 2
         IN  IF lo % 2 = 0 THEN Real(lo) ELSE Real(lo + 1)
\* != on floats: NaN differs from everything
NotEqualNum(u, v) == u.nan \/ v.nan \/ u.h # v.h

\* ---------------------------------------------------------------- ndarray
Rows(s) == IF Len(s) = 2 THEN s[1] ELSE 1
Cols(s) == IF Len(s) = 0 THEN 1 ELSE s[Len(s)]
NumElems(s) == Rows(s) * Cols(s)
Array(s, d) == [shape |-> s, data |-> d]
\* the empty array np.array([]); also the value of a name not yet bound
None == Array(<<0>>, <<>>)
Full(s, v) == Array(s, [p \in 1..NumElems(s) |-> v])

DimOK(m, n) == m = n \/ m = 1 \/ n = 1
Compatible(s, t) == DimOK(Rows(s), Rows(t)) /\ DimOK(Cols(s), Cols(t))
BroadcastDim(m, n) == IF m = 1 THEN n ELSE m
BroadcastShape(s, t) ==
    IF Len(s) = 2 \/ Len(t) = 2
    THEN <<BroadcastDim(Rows(s), Rows(t)), BroadcastDim(Cols(s), Cols(t))>>
    ELSE <<BroadcastDim(Cols(s), Cols(t))>>
\* element (r, c) of a, with a's dimensions of size 1 stretched
At(a, r, c) ==
    a.data[((IF Rows(a.shape) = 1 THEN 1 ELSE r) - 1) * Cols(a.shape)
           + (IF Cols(a.shape) = 1 THEN 1 ELSE c)]
\* element p (row-major) of a broadcast to the shape s
Stretch(a, p, s) == At(a, ((p - 1) \div Cols(s)) + 1, ((p - 1) % Cols(s)) + 1)

\* a * b
Mul(a, b) ==
    LET s == BroadcastShape(a.shape, b.shape)
    IN  Array(s, [p \in 1..NumElems(s) |-> MulNum(Stretch(a, p, s), Stretch(b, p, s))])
\* a + b
Add(a, b) ==
    LET s == BroadcastShape(a.shape, b.shape)
    IN  Array(s, [p \in 1..NumElems(s) |-> AddNum(Stretch(a, p, s), Stretch(b, p, s))])
\* 1 - a
OneMinus(a) == Array(a.shape, [p \in 1..Len(a.data) |-> OneMinusNum(a.data[p])])
\* np.round(a)
Round(a) == Array(a.shape, [p \in 1..Len(a.data) |-> RoundNum(a.data[p])])
\* np.not_equal(a, b)
NotEqual(a, b) ==
    LET s == BroadcastShape(a.shape, b.shape)
    IN  Array(s, [p \in 1..NumElems(s) |->
                    NotEqualNum(Stretch(a, p, s), Stretch(b, p, s))])
HasNaN(a) == \E p \in 1..Len(a.data) : a.data[p].nan
\* np.sum in place of np.mean
Mean_Sum(e) == [num |-> Cardinality({p \in 1..Len(e.data) : e.data[p]}), den |-> 1]
\* np.mean of a boolean array: the fraction of TRUE entries
Mean(e) == [num |-> Cardinality({p \in 1..Len(e.data) : e.data[p]}),
            den |-> Len(e.data)]
\* np.array of a list of rows
FromRows(rows) ==
    IF Len(rows) = 0 THEN None
    ELSE Array(<<Len(rows), Len(rows[1])>>,
               [p \in 1..(Len(rows) * Len(rows[1])) |->
                  rows[((p - 1) \div Len(rows[1])) + 1][((p - 1) % Len(rows[1])) + 1]])

\* ------------------------------------------------------------ random draws
\* np.random.randint(M): a message index
RandInt == 0..(M - 1)
\* samples of the Rayleigh distribution: 0.0 and 1.0
FadeVals == {Real(0), Real(1)}
\* samples of std_noise * randn: -0.5, 0.0 and 0.5
NoiseVals == {Num(-1), Num(0), Num(1)}
\* values of the encoder output handed to the channel layer: -1.0, 0.0, 2.0
SignalVals == {Real(-1), Real(0), Real(2)}
\* every array of the given shape over the given values
Arrays(s, vals) == {Array(s, d) : d \in [1..NumElems(s) -> vals]}
\* a draw of the given shape with one sample repeated
Constants(s, vals) == {Full(s, v) : v \in vals}
\* a draw of the given shape: one sample repeated, or one sample in the
\* first position and zeros elsewhere
Draws(s, vals) ==
    Constants(s, vals)
    \cup {Array(s, [p \in 1..NumElems(s) |-> IF p = 1 THEN v ELSE Real(0)]) : v \in vals}

\* the sample drawn as a column, np.random.rayleigh(beta_variance, (num_channels, 1))
TrainFading_Column == Draws(<<num_channels, 1>>, FadeVals)
\* np.random.rayleigh(beta_variance, num_channels), line 68
TrainFading == Draws(<<num_channels>>, FadeVals)
\* a single sample for the whole row, np.random.rayleigh(beta_variance, 1)
EvalFading_Single == Constants(<<1>>, FadeVals)
\* np.random.rayleigh(beta_variance, M), line 214
EvalFading == Constants(<<M>>, FadeVals)
\* std_noise * np.random.randn(size_test_data, M), line 220
EvalNoise == Constants(<<size_test_data, M>>, NoiseVals)

\* ---------------------------------------------------------- pure functions
\* lines 56-58: a row of zeros with a one at idx
OneHotRow(idx) == [j \in 1..M |-> IF j = idx + 1 THEN Real(1) ELSE Real(0)]

\* rayleigh(x) with the sample r drawn at line 68
rayleigh(x, r) ==
    LET f == Mul(x, r)
    IN  Mul(x, OneMinus(f))

rayleigh_shape(input_shape) == input_shape

\* outcomes of autoencoder.fit: the trained weights
Weights == {"trained", "diverged"}
\* autoencoder.predict(x): one row of M softmax outputs per input row.
\* trained: the probabilities 1 and 0 of the message itself; diverged: NaN.
Predict(w, x) ==
    Array(<<Rows(x.shape), M>>,
          [p \in 1..(Rows(x.shape) * M) |->
             IF w = "diverged" THEN NaN ELSE x.data[p]])

\* np.linspace with its end points exchanged
linspace_Swapped(a, b, n) ==
    IF n = 1 THEN <<2 * b>>
    ELSE [j \in 1..n |-> 2 * b + ((j - 1) * (2 * (a - b))) \div (n - 1)]
\* np.linspace(a, b, n) in halves of a dB
linspace(a, b, n) ==
    IF n = 1 THEN <<2 * a>>
    ELSE [j \in 1..n |-> 2 * a + ((j - 1) * (2 * (b - a))) \div (n - 1)]

\* ------------------------------------------------------------------ state
VARIABLES
    pc,             \* position of the script
    ray_x,          \* rayleigh: the argument x
    ray_r,          \* rayleigh: the Rayleigh sample drawn at line 68
    ray_ret,        \* rayleigh: the returned array
    ds_pc,          \* create_data_set: position
    ds_size,        \* create_data_set: the argument size
    ds_i,           \* create_data_set: rows appended so far
    ds_data,        \* create_data_set: data
    test_data,
    weights,        \* the trained autoencoder
    range_SNR_dB,   \* in halves of a dB
    ber,
    i,              \* next index of the sweep loop
    snr,            \* SNR of the current point, in halves of a dB
    predictions,
    fading,
    noise,
    signal,
    errors,
    plot_saved,     \* plt.savefig has written the image file
    plot_x,         \* what plt.plot was given
    plot_y,
    ber_writes,     \* history: number of assignments to ber[j]
    ber_snr,        \* history: snr in effect when ber[j] was assigned
    test_data_0,    \* history: test_data when the sweep began
    weights_0       \* history: weights when the sweep began

ray_vars == <<ray_x, ray_r, ray_ret>>
ds_vars == <<ds_pc, ds_size, ds_i, ds_data>>
loop_vars == <<snr, predictions, fading, noise, signal, errors>>
hist_vars == <<test_data_0, weights_0>>
sweep_vars == <<range_SNR_dB, ber, i, ber_writes, ber_snr, hist_vars>>
plot_vars == <<plot_saved, plot_x, plot_y>>
vars == <<pc, ray_vars, ds_vars, test_data, weights, loop_vars, sweep_vars, plot_vars>>

\* everything but pc and the frame of create_data_set
Blank ==
    /\ ray_x = None /\ ray_r = None /\ ray_ret = None
    /\ test_data = None
    /\ weights = "untrained"
    /\ range_SNR_dB = <<>> /\ ber = <<>> /\ i = 0
    /\ ber_writes = <<>> /\ ber_snr = <<>>
    /\ test_data_0 = None /\ weights_0 = "untrained"
    /\ snr = 0
    /\ predictions = None /\ fading = None /\ noise = None
    /\ signal = None /\ errors = None
    /\ plot_saved = FALSE /\ plot_x = <<>> /\ plot_y = <<>>

\* the script, before build_model
Init ==
    /\ pc = "build"
    /\ ds_pc = "idle" /\ ds_size = 0 /\ ds_i = 0 /\ ds_data = <<>>
    /\ Blank

\* create_data_set called on its own with any size
InitData ==
    /\ pc = "call"
    /\ ds_pc = "loop" /\ ds_size \in (-1)..MaxSize /\ ds_i = 0 /\ ds_data = <<>>
    /\ Blank

\* ------------------------------------------------- build_model / rayleigh
\* lines 118-121, 67-70: the Lambda layer calls rayleigh on the encoder
\* output, a batch of rows of num_channels values
Rayleigh ==
    /\ pc = "build"
    /\ \E b \in 1..MaxBatch :
         \E x \in Arrays(<<b, num_channels>>, SignalVals) :
           \E r \in TrainFading :
             /\ ray_x' = x
             /\ ray_r' = r
             /\ IF Compatible(x.shape, r.shape)
                THEN ray_ret' = rayleigh(x, r) /\ pc' = "compile"
                ELSE ray_ret' = None /\ pc' = "aborted"
    /\ UNCHANGED <<ds_vars, test_data, weights, loop_vars, sweep_vars, plot_vars>>

\* lines 150-172: build_model returns (rayleigh's frame is gone), compile
Compile ==
    /\ pc = "compile"
    /\ pc' = "data"
    /\ ray_x' = None /\ ray_r' = None /\ ray_ret' = None
    /\ UNCHANGED <<ds_vars, test_data, weights, loop_vars, sweep_vars, plot_vars>>

\* -------------------------------------------------------- create_data_set
\* line 177: the call create_data_set(size_test_data)
CallCreateDataSet ==
    /\ pc = "data" /\ ds_pc = "idle"
    /\ ds_pc' = "loop" /\ ds_size' = size_test_data /\ ds_i' = 0 /\ ds_data' = <<>>
    /\ UNCHANGED <<pc, ray_vars, test_data, weights, loop_vars, sweep_vars, plot_vars>>

\* the loop running once too often, range(size + 1)
DataStep_OneMore ==
    /\ ds_pc = "loop" /\ ds_i < ds_size + 1
    /\ \E idx \in RandInt : ds_data' = Append(ds_data, OneHotRow(idx))
    /\ ds_i' = ds_i + 1
    /\ UNCHANGED <<pc, ds_pc, ds_size, ray_vars, test_data, weights, loop_vars,
                   sweep_vars, plot_vars>>
\* lines 55-59: one pass of the loop
DataStep ==
    /\ ds_pc = "loop" /\ ds_i < ds_size
    /\ \E idx \in RandInt : ds_data' = Append(ds_data, OneHotRow(idx))
    /\ ds_i' = ds_i + 1
    /\ UNCHANGED <<pc, ds_pc, ds_size, ray_vars, test_data, weights, loop_vars,
                   sweep_vars, plot_vars>>

\* lines 61-62: the loop is over, data becomes an ndarray and is returned
DataReturn ==
    /\ ds_pc = "loop" /\ ~(ds_i < ds_size)
    /\ ds_data' = FromRows(ds_data)
    /\ ds_pc' = "returned"
    /\ UNCHANGED <<pc, ds_size, ds_i, ray_vars, test_data, weights, loop_vars,
                   sweep_vars, plot_vars>>

\* line 177: test_data = the returned array
AssignTestData ==
    /\ pc = "data" /\ ds_pc = "returned"
    /\ test_data' = ds_data
    /\ ds_pc' = "idle" /\ ds_size' = 0 /\ ds_i' = 0 /\ ds_data' = <<>>
    /\ pc' = "fit"
    /\ UNCHANGED <<ray_vars, weights, loop_vars, sweep_vars, plot_vars>>

\* -------------------------------------------------------------------- fit
\* lines 180-194
Fit ==
    /\ pc = "fit"
    /\ weights' \in Weights
    /\ pc' = "sweep"
    /\ UNCHANGED <<ray_vars, ds_vars, test_data, loop_vars, sweep_vars, plot_vars>>

\* ------------------------------------------------------------------ sweep
\* lines 198-201
SweepInit ==
    /\ pc = "sweep"
    /\ range_SNR_dB' = linspace(start, end, 2 * (end - start) + 1)
    /\ ber' = [j \in 1..Len(range_SNR_dB') |-> [num |-> 0, den |-> 1]]
    /\ ber_writes' = [j \in 1..Len(range_SNR_dB') |-> 0]
    /\ ber_snr' = [j \in 1..Len(range_SNR_dB') |-> 0]
    /\ test_data_0' = test_data /\ weights_0' = weights
    /\ i' = 0
    /\ pc' = "loop"
    /\ UNCHANGED <<ray_vars, ds_vars, test_data, weights, loop_vars, plot_vars>>

\* lines 203-205: the next point of the sweep
SweepNext ==
    /\ pc = "loop" /\ i < Len(range_SNR_dB)
    /\ snr' = range_SNR_dB[i + 1]
    /\ pc' = "predict"
    /\ UNCHANGED <<ray_vars, ds_vars, test_data, weights, predictions, fading,
                   noise, signal, errors, sweep_vars, plot_vars>>

\* lines 208-211
PredictStep ==
    /\ pc = "predict"
    /\ predictions' = Predict(weights, test_data)
    /\ signal' = predictions'
    /\ pc' = "fade"
    /\ UNCHANGED <<ray_vars, ds_vars, test_data, weights, snr, fading, noise,
                   errors, sweep_vars, plot_vars>>

\* line 208: predict raises, the script ends with the exception
PredictFail ==
    /\ pc = "predict"
    /\ pc' = "aborted"
    /\ UNCHANGED <<ray_vars, ds_vars, test_data, weights, loop_vars, sweep_vars,
                   plot_vars>>

\* lines 214-215
FadeStep ==
    /\ pc = "fade"
    /\ \E r \in EvalFading :
         /\ fading' = r
         /\ IF Compatible(signal.shape, r.shape)
            THEN signal' = Mul(signal, OneMinus(r)) /\ pc' = "noise"
            ELSE signal' = signal /\ pc' = "aborted"
    /\ UNCHANGED <<ray_vars, ds_vars, test_data, weights, snr, predictions,
                   noise, errors, sweep_vars, plot_vars>>

\* lines 218-221
NoiseStep ==
    /\ pc = "noise"
    /\ \E n \in EvalNoise :
         /\ noise' = n
         /\ IF Compatible(signal.shape, n.shape)
            THEN signal' = Add(signal, n) /\ pc' = "round"
            ELSE signal' = signal /\ pc' = "aborted"
    /\ UNCHANGED <<ray_vars, ds_vars, test_data, weights, snr, predictions,
                   fading, errors, sweep_vars, plot_vars>>

\* the rounding left out
RoundStep_Skipped ==
    /\ pc = "round"
    /\ pc' = "compare"
    /\ UNCHANGED <<ray_vars, ds_vars, test_data, weights, loop_vars, sweep_vars,
                   plot_vars>>
\* line 223
RoundStep ==
    /\ pc = "round"
    /\ signal' = Round(signal)
    /\ pc' = "compare"
    /\ UNCHANGED <<ray_vars, ds_vars, test_data, weights, snr, predictions,
                   fading, noise, errors, sweep_vars, plot_vars>>

\* lines 225-228
CompareStep ==
    /\ pc = "compare"
    /\ IF Compatible(signal.shape, test_data.shape)
       THEN /\ errors' = NotEqual(signal, test_data)
            /\ ber' = [ber EXCEPT ![i + 1] = Mean(errors')]
            /\ ber_writes' = [ber_writes EXCEPT ![i + 1] = @ + 1]
            /\ ber_snr' = [ber_snr EXCEPT ![i + 1] = snr]
            /\ i' = i + 1
            /\ pc' = "loop"
       ELSE /\ pc' = "aborted"
            /\ UNCHANGED <<errors, ber, ber_writes, ber_snr, i>>
    /\ UNCHANGED <<ray_vars, ds_vars, test_data, weights, snr, predictions,
                   fading, noise, signal, range_SNR_dB, hist_vars, plot_vars>>

\* the plot and savefig indented into the loop body
Plot_InLoop ==
    /\ pc = "loop" /\ i > 0 /\ plot_y # ber
    /\ plot_x' = range_SNR_dB
    /\ plot_y' = ber
    /\ plot_saved' = TRUE
    /\ pc' = IF i < Len(range_SNR_dB) THEN "loop" ELSE "done"
    /\ UNCHANGED <<ray_vars, ds_vars, test_data, weights, loop_vars, sweep_vars>>
\* lines 231-242: the loop is over, plot the curve and save the figure
Plot ==
    /\ pc = "loop" /\ ~(i < Len(range_SNR_dB))
    /\ plot_x' = range_SNR_dB
    /\ plot_y' = ber
    /\ plot_saved' = TRUE
    /\ pc' = "done"
    /\ UNCHANGED <<ray_vars, ds_vars, test_data, weights, loop_vars, sweep_vars>>

Next ==
    \/ Rayleigh \/ Compile
    \/ CallCreateDataSet \/ DataStep \/ DataReturn \/ AssignTestData
    \/ Fit
    \/ SweepInit \/ SweepNext \/ PredictStep \/ PredictFail
    \/ FadeStep \/ NoiseStep \/ RoundStep \/ CompareStep
    \/ Plot

Spec == Init /\ [][Next]_vars

NextData == DataStep \/ DataReturn

SpecData == InitData /\ [][NextData]_vars

\* ----------------------------------------------------------------- claims
SweepPoints == 2 * (end - start) + 1
InSweep == pc \in {"loop", "predict", "fade", "noise", "round", "compare"}
SweepOver == pc = "done" \/ (pc = "loop" /\ ~(i < Len(range_SNR_dB)))

\* C1: for every size >= 1, create_data_set(size) returns exactly size rows
\* of length M, each with exactly one entry equal to 1 and all others 0.
C1_OneHotDataSet ==
    (ds_pc = "returned" /\ ds_size >= 1) =>
        /\ ds_data.shape = <<ds_size, M>>
        /\ Len(ds_data.data) = ds_size * M
        /\ \A r \in 1..ds_size :
             /\ Cardinality({c \in 1..M : At(ds_data, r, c) = Real(1)}) = 1
             /\ \A c \in 1..M : At(ds_data, r, c) \in {Real(0), Real(1)}
C1_Witness == ds_pc = "returned" /\ ds_size >= 2

\* C2: when the sweep has finished, ber has one entry per sweep point,
\* 2*(end-start)+1 of them, every entry is a count of disagreeing elements
\* divided by size_test_data*M, so within [0,1], and was written exactly once.
C2_BerRange ==
    SweepOver =>
        /\ Len(ber) = SweepPoints
        /\ \A j \in 1..Len(ber) :
             /\ ber[j].den = size_test_data * M
             /\ 0 <= ber[j].num /\ ber[j].num <= ber[j].den
             /\ ber_writes[j] = 1
C2_Witness ==
    /\ pc = "done"
    /\ \E j \in 1..Len(ber) : ber[j].num > 0 /\ ber[j].num < ber[j].den
    /\ \E j \in 1..Len(ber) : ber[j].num = 0

\* C3: create_data_set called with a size below 1 fails and returns no
\* dataset.
C3_RejectsNonPositiveSize == ds_size < 1 => ds_pc # "returned"

\* C4: the BER plot is saved only after every sweep point has been evaluated,
\* and a run that aborted has saved no plot.
C4_NoPartialPlot ==
    /\ plot_saved =>
         /\ pc = "done"
         /\ i = Len(range_SNR_dB)
         /\ \A j \in 1..Len(range_SNR_dB) : ber_writes[j] = 1
         /\ plot_y = ber
    /\ pc = "aborted" => ~plot_saved /\ plot_x = <<>> /\ plot_y = <<>>
C4_Witness == pc = "aborted" /\ i >= 1 /\ i < Len(range_SNR_dB)

\* C5: a NaN in the predictions aborts the run; no NaN reaches the rounding
\* or the comparison that produces a BER entry.
C5_NaNNeverRounded == pc \in {"round", "compare"} => ~HasNaN(signal)

\* C6: rayleigh returns an array of the shape of its argument, which is what
\* rayleigh_shape declares, and in the sweep the signal after fading and
\* after noise has the shape of the predictions.
C6_ShapePreserved ==
    /\ pc = "compile" =>
         /\ ray_ret.shape = ray_x.shape
         /\ ray_ret.shape = rayleigh_shape(ray_x.shape)
         /\ Len(ray_ret.data) = Len(ray_x.data)
    /\ pc \in {"noise", "round", "compare"} =>
         /\ signal.shape = predictions.shape
         /\ signal.shape = <<size_test_data, M>>
         /\ Len(signal.data) = Len(predictions.data)
C6_Witness ==
    /\ pc = "compile"
    /\ Rows(ray_x.shape) >= 2
    /\ \E p \in 1..Len(ray_r.data) : ray_r.data[p] # Real(0)
    /\ \E p \in 1..Len(ray_x.data) : ray_x.data[p] # ray_ret.data[p]

\* C7: range_SNR_dB runs from start to end in steps of half a dB, strictly
\* ascending; the entries of ber are written in that order, the j-th from
\* the error rate measured at the j-th SNR value; the plot gets both
\* sequences as they are.
C7_AscendingSweep ==
    /\ pc \in {"build", "compile", "data", "fit", "sweep"} => range_SNR_dB = <<>>
    /\ (InSweep \/ pc = "done") =>
         /\ Len(range_SNR_dB) = SweepPoints
         /\ range_SNR_dB[1] = 2 * start
         /\ range_SNR_dB[Len(range_SNR_dB)] = 2 * end
         /\ \A j \in 1..(Len(range_SNR_dB) - 1) :
              range_SNR_dB[j + 1] = range_SNR_dB[j] + 1
         /\ \A j \in 1..Len(range_SNR_dB) :
              /\ ber_writes[j] > 0 <=> j <= i
              /\ j <= i => ber_snr[j] = range_SNR_dB[j]
         /\ pc \in {"predict", "fade", "noise", "round", "compare"} =>
              snr = range_SNR_dB[i + 1]
    /\ plot_saved => plot_x = range_SNR_dB /\ plot_y = ber
C7_Witness ==
    /\ pc = "done"
    /\ Len(plot_x) >= 3
    /\ \E j \in 1..Len(plot_y) : plot_y[j] # plot_y[1]

C9_RayleighFormula == pc = "compile" => ray_ret = Mul(ray_x, OneMinus(ray_r))

\* C10 as stated: every fading sample, in rayleigh and in the sweep, has
\* length num_channels.
C10_FadingLengthNumChannels ==
    /\ ray_r # None => ray_r.shape = <<num_channels>>
    /\ fading # None => fading.shape = <<num_channels>>

\* C10 amended: the fading sample of rayleigh has length num_channels, the
\* fading sample of every sweep point has length M.
C10_FadingLength ==
    /\ pc = "compile" => ray_r # None
    /\ ray_r # None => ray_r.shape = <<num_channels>> /\ Len(ray_r.data) = num_channels
    /\ pc \in {"noise", "round", "compare"} => fading # None
    /\ fading # None => fading.shape = <<M>> /\ Len(fading.data) = M
C10_Witness == pc = "noise" /\ i >= 1 /\ fading # None
=============================================================================
